---- MODULE Spec2Model ----
(***************************************************************************)
(* Readmission-risk project: threshold selection, category reduction,      *)
(* the training run that writes the model bundle and the serving process   *)
(* that loads it.  Each part has its own specification over the shared     *)
(* variables; the variables of the other parts stay at their initial       *)
(* value.                                                                  *)
(***************************************************************************)
EXTENDS Integers, Sequences, FiniteSets, TLC

VARIABLES
    y_true,      \* label vector handed to choose_threshold_by_policy
    y_proba,     \* probability vector, in thousandths
    selected,    \* recall floor (percent) -> threshold returned for it
    top_k,        \* TopCategoryReducer.top_k
    keep_values_, \* TopCategoryReducer.keep_values_: column -> set of strings
    fitted,       \* whether fit has been called on the instance
    X_arg,        \* the table the caller passes: column -> sequence of cells
    transformed,  \* what the last transform call returned
    fs,           \* artifacts directory: file name -> [state, data]
    run,          \* number of the current (or last) training run, 0 before any
    train_pc,     \* position of the training run in main
    results,      \* main: results, the CVResult of each evaluated candidate
    threshold_tables, \* main: threshold_tables, model name -> table
    best_name,    \* main: best_name
    best_threshold,   \* main: best_threshold
    completed,    \* the runs whose main returned 0
    load_pc,      \* position of the serving process in load_assets
    ld_model,     \* load_assets: model
    ld_threshold, \* load_assets: threshold_cfg
    ASSETS,       \* app.main.ASSETS: None or the loaded ModelAssets
    startup_runs, \* whether the process runs the startup event at all
    src_on_path,  \* whether sys.path of the serving process holds src/
    last,         \* the last request handled and its response
    df_columns,   \* prepare_xy: df.columns, in order
    df_rows,      \* prepare_xy: the rows of df
    target_col,   \* prepare_xy: target_col
    prepared,     \* what the prepare_xy call returned or raised
    test_fold,    \* evaluate_model_cv: row position -> the fold that tests it
    jobs,         \* evaluate_model_cv: fold -> the state of its fit-and-predict job
    arrival,      \* the folds in the order their jobs completed
    oof_proba,    \* evaluate_model_cv: oof_proba
    schema_arg,   \* the list a caller passes to make_input_frame
    provided_arg, \* the mapping a caller passes to make_input_frame
    frame_call,   \* the make_input_frame call: what it was given and returned
    top_categories_, \* second TopCategoryReducer: top_categories_
    transformed_2    \* what the last transform call of the second one returned

thresholdVars == <<y_true, y_proba, selected>>
reducerVars == <<top_k, keep_values_, fitted, X_arg, transformed>>

trainVars == <<fs, run, train_pc, results, threshold_tables, best_name,
               best_threshold, completed>>
loadVars == <<load_pc, ld_model, ld_threshold, ASSETS, startup_runs, src_on_path>>
prepVars == <<df_columns, df_rows, target_col, prepared>>
cvVars == <<test_fold, jobs, arrival, oof_proba>>
frameVars == <<schema_arg, provided_arg, frame_call>>
equivVars == <<top_categories_, transformed_2>>

vars == <<y_true, y_proba, selected, top_k, keep_values_, fitted, X_arg,
          transformed, fs, run, train_pc, results, threshold_tables, best_name,
          best_threshold, completed, load_pc, ld_model, ld_threshold, ASSETS,
          startup_runs, src_on_path, last, df_columns, df_rows, target_col, prepared,
          test_fold, jobs, arrival, oof_proba, schema_arg, provided_arg,
          frame_call, top_categories_, transformed_2>>

(***************************************************************************)
(* Threshold selection (train.py, choose_threshold_by_policy).             *)
(*                                                                         *)
(* Probabilities and thresholds are integers in thousandths.  The grid is  *)
(* np.linspace(0.05, 0.95, 91): 50, 60, ..., 950.  Metrics are exact       *)
(* fractions <<numerator, denominator>> with a positive denominator, and   *)
(* are compared by cross multiplication.                                   *)
(***************************************************************************)
GridPoints == 91
GridFirst == 50
GridStep == 10

\* Bounds of the inputs.  Probability values lie strictly between grid points
\* (the float grid of linspace is not exactly decimal, so a comparison of a
\* probability with an equal grid value is not modelled); 45 is below every
\* grid threshold.
MaxRows == 6
ProbaValues == {45, 305, 805}
RecallFloors == {70, 90}

thresholds == [k \in 1..GridPoints |-> GridFirst + GridStep * (k - 1)]

\* zero_division=0: an undefined metric is 0.
Ratio(num, den) == IF den = 0 THEN <<0, 1>> ELSE <<num, den>>

FracLess(a, b) == a[1] * b[2] < b[1] * a[2]
FracEq(a, b) == a[1] * b[2] = b[1] * a[2]

\* y_pred = (y_proba >= t).astype(int), then the confusion counts.
TruePos(y, p, t) == Cardinality({i \in 1..Len(y) : y[i] = 1 /\ p[i] >= t})
FalsePos(y, p, t) == Cardinality({i \in 1..Len(y) : y[i] = 0 /\ p[i] >= t})
FalseNeg(y, p, t) == Cardinality({i \in 1..Len(y) : y[i] = 1 /\ p[i] < t})

\* The three scores of sklearn.metrics from the confusion counts of y_pred.
precision_score(tp, fp) == Ratio(tp, tp + fp)

recall_score(tp, fn) == Ratio(tp, tp + fn)

f1_score(tp, fp, fn) == Ratio(2 * tp, 2 * tp + fp + fn)

\* The body of the loop over the grid: the row of threshold t.
ThresholdRow(y, p, t) ==
    LET tp == TruePos(y, p, t)
        fp == FalsePos(y, p, t)
        fn == FalseNeg(y, p, t)
    IN [threshold |-> t,
        precision |-> precision_score(tp, fp),
        recall |-> recall_score(tp, fn),
        f1 |-> f1_score(tp, fp, fn)]

\* tbl = pd.DataFrame(rows): one row per grid threshold, in grid order.
threshold_table(y, p) ==
    [k \in 1..GridPoints |-> ThresholdRow(y, p, thresholds[k])]

\* Row a sorts strictly before row b under
\* sort_values(["f1", "precision"], ascending=False).
SortsBefore(a, b) ==
    \/ FracLess(b.f1, a.f1)
    \/ FracEq(a.f1, b.f1) /\ FracLess(b.precision, a.precision)

\* The multi-column sort is a stable lexsort: rows with equal keys keep the
\* order of the table.  Row j is placed in front of row i when it sorts
\* strictly before it or has equal keys and precedes it in the table.
SameKeys(a, b) == ~SortsBefore(a, b) /\ ~SortsBefore(b, a)

\* Variant: an unstable sort in which the later of two tied rows comes first.
LastWinsPlacedBefore(rows, j, i) ==
    \/ SortsBefore(rows[j], rows[i])
    \/ SameKeys(rows[j], rows[i]) /\ j > i

\* sort_values(["f1", "precision"], ascending=False): ties keep table order.
PlacedBefore(rows, j, i) ==
    \/ SortsBefore(rows[j], rows[i])
    \/ SameKeys(rows[j], rows[i]) /\ j < i

\* rows.sort_values(["f1", "precision"], ascending=False).iloc[0]: the row
\* that the sort places in front of every other row.
sort_values_iloc0(rows) ==
    rows[CHOOSE i \in 1..Len(rows) :
            \A j \in 1..Len(rows) : ~PlacedBefore(rows, j, i)]

\* Variant: the floor applied to precision instead of recall.
PrecisionFloorMet(row, recall_target) ==
    row.precision[1] * 100 >= recall_target * row.precision[2]

\* tbl["recall"] >= recall_target, the target in percent.
RecallFloorMet(row, recall_target) ==
    row.recall[1] * 100 >= recall_target * row.recall[2]

\* Variant: every grid row is a candidate.
NoFilter(tbl, recall_target) == tbl

\* candidates = tbl[tbl["recall"] >= recall_target]
Candidates(tbl, recall_target) ==
    SelectSeq(tbl, LAMBDA row : RecallFloorMet(row, recall_target))

choose_threshold_by_policy(y, p, recall_target) ==
    LET tbl == threshold_table(y, p)
        candidates == Candidates(tbl, recall_target)
        best_row == IF Len(candidates) > 0
                    THEN sort_values_iloc0(candidates)
                    ELSE sort_values_iloc0(tbl)
    IN best_row.threshold

(***************************************************************************)
(* TopCategoryReducer (train.py).  A table is a function from column names *)
(* to equally long sequences of cells; a cell is a text value or one of    *)
(* the missing values NaN, None and pd.NA.  The text of a cell is what     *)
(* str() returns for it.                                                   *)
(***************************************************************************)
MaxCells == 4
MaxTopK == 2
Columns == {"c1", "c2"}
Texts == {"A", "B"}

\* np.nan, None and pd.NA.
Missing == [kind |-> "missing", text |-> "nan"]
MissingNone == [kind |-> "missing", text |-> "None"]
MissingNA == [kind |-> "missing", text |-> "<NA>"]

Text(t) == [kind |-> "text", text |-> t]

\* The cells the first reducer is exercised with: it tells a missing cell
\* from a text and nothing else, so one missing value stands for the three.
Cells == {Missing} \cup {Text(t) : t \in Texts}

\* The cells of the caller that holds both implementations.
AllCells == {Missing, MissingNone, MissingNA} \cup {Text(t) : t \in Texts}

other_label == "Other"

NoTable == [kind |-> "none"]

NumRows(X) == IF DOMAIN X = {} THEN 0 ELSE Len(X[CHOOSE c \in DOMAIN X : TRUE])

\* Index.astype(str) of a non-missing text value.
AsStr(cell) == cell.text

\* Series.astype("string"): missing becomes <NA>, text stays.
NA == "<NA>"
AsStringDtype(cell) == IF cell.kind = "missing" THEN NA ELSE cell.text

\* The distinct non-missing values of a column and their counts:
\* value_counts(dropna=True) before ordering.
DistinctValues(column) ==
    {column[i] : i \in {j \in 1..Len(column) : column[j].kind # "missing"}}

CountOf(column, v) == Cardinality({i \in 1..Len(column) : column[i] = v})

\* value_counts orders by count, descending; the order among equal counts is
\* not fixed, so every order with non-increasing counts is a possible result.
value_counts(column) ==
    LET vals == DistinctValues(column)
        n == Cardinality(vals)
    IN {vc \in [1..n -> vals] :
            /\ \A i, j \in 1..n : i # j => vc[i] # vc[j]
            /\ \A i \in 1..n - 1 : CountOf(column, vc[i]) >= CountOf(column, vc[i + 1])}

\* Variant: the k least frequent values, the end of vc.
Tail_k(vc, k) == SubSeq(vc, IF k < Len(vc) THEN Len(vc) - k + 1 ELSE 1, Len(vc))

\* vc.head(k)
Head_k(vc, k) == SubSeq(vc, 1, IF k < Len(vc) THEN k ELSE Len(vc))

\* set(vc.head(self.top_k).index.astype(str).tolist()), for each possible vc.
KeepSets(column, k) ==
    {{AsStr(Head_k(vc, k)[i]) : i \in 1..Len(Head_k(vc, k))} : vc \in value_counts(column)}

\* fit: the possible values of keep_values_ after the loop over X.columns.
fit(X, k) ==
    {kv \in [DOMAIN X -> SUBSET Texts] :
        \A col \in DOMAIN X : kv[col] \in KeepSets(X[col], k)}

\* keep = self.keep_values_.get(col, set())
KeepOf(kv, col) == IF col \in DOMAIN kv THEN kv[col] ELSE {}

\* Variant: the mask without the notna() conjunct.
MaskIgnoringMissing(cell, keep) == AsStringDtype(cell) \notin keep

\* mask = s.notna() & (~s.isin(list(keep)))
Mask(cell, keep) == AsStringDtype(cell) # NA /\ AsStringDtype(cell) \notin keep

\* X_out.loc[mask, col] = self.other_label, cell by cell.
TransformCell(cell, keep) == IF Mask(cell, keep) THEN Text(other_label) ELSE cell

\* transform: a copy of X with the masked cells of every column replaced.
transform(X, kv) ==
    [col \in DOMAIN X |->
        [i \in 1..Len(X[col]) |-> TransformCell(X[col][i], KeepOf(kv, col))]]

\* __init__: keep_values_ = {}
ReducerInit ==
    /\ top_k \in 1..MaxTopK
    /\ keep_values_ = [c \in {} |-> {}]
    /\ fitted = FALSE
    /\ X_arg = [c \in {} |-> <<>>]
    /\ transformed = NoTable

\* The reducer as constructed and never used (the other specifications).
ReducerIdle ==
    /\ top_k = 1
    /\ keep_values_ = [c \in {} |-> {}]
    /\ fitted = FALSE
    /\ X_arg = [c \in {} |-> <<>>]
    /\ transformed = NoTable

\* The caller starts a table with the given columns and no rows.
NewTable(cols) ==
    /\ X_arg' = [c \in cols |-> <<>>]
    /\ transformed' = NoTable
    /\ UNCHANGED <<top_k, keep_values_, fitted, thresholdVars, trainVars, loadVars, last,
                   prepVars, cvVars, frameVars, equivVars>>

\* The caller adds a row to its table.
AppendTableRow(row) ==
    /\ DOMAIN row = DOMAIN X_arg
    /\ DOMAIN X_arg # {}
    /\ (NumRows(X_arg) + 1) * Cardinality(DOMAIN X_arg) <= MaxCells
    /\ X_arg' = [c \in DOMAIN X_arg |-> Append(X_arg[c], row[c])]
    /\ transformed' = NoTable
    /\ UNCHANGED <<top_k, keep_values_, fitted, thresholdVars, trainVars, loadVars, last,
                   prepVars, cvVars, frameVars, equivVars>>

\* reducer.fit(X_arg)
Fit ==
    /\ keep_values_' \in fit(X_arg, top_k)
    /\ fitted' = TRUE
    /\ transformed' = NoTable
    /\ UNCHANGED <<top_k, X_arg, thresholdVars, trainVars, loadVars, last,
                   prepVars, cvVars, frameVars, equivVars>>

\* reducer.transform(X_arg)
Transform ==
    /\ transformed' = [kind |-> "table", out |-> transform(X_arg, keep_values_)]
    /\ UNCHANGED <<top_k, keep_values_, fitted, X_arg, thresholdVars, trainVars,
                   loadVars, last, prepVars, cvVars, frameVars, equivVars>>

ReducerNext ==
    \/ \E cols \in SUBSET Columns : NewTable(cols)
    \/ \E cols \in SUBSET Columns : \E row \in [cols -> Cells] : AppendTableRow(row)
    \/ Fit
    \/ Transform

\* Input vectors are enumerated up to row order (every metric is a count over
\* rows): rows are listed by non-decreasing probability, labels 0 before 1.
RowLeq(y1, p1, y2, p2) == p1 < p2 \/ (p1 = p2 /\ y1 <= y2)

ThresholdInit ==
    /\ y_true = <<>>
    /\ y_proba = <<>>
    /\ selected = [f \in {} |-> 0]

\* One more (label, probability) pair of the out-of-fold vectors.
AppendRow(label, proba) ==
    /\ Len(y_true) < MaxRows
    /\ DOMAIN selected = {}
    /\ Len(y_true) > 0 =>
          RowLeq(y_true[Len(y_true)], y_proba[Len(y_proba)], label, proba)
    /\ y_true' = Append(y_true, label)
    /\ y_proba' = Append(y_proba, proba)
    /\ UNCHANGED <<selected, reducerVars, trainVars, loadVars, last,
                   prepVars, cvVars, frameVars, equivVars>>

\* best_t, tbl = choose_threshold_by_policy(y_true, y_proba, recall_target)
ChooseThreshold(recall_target) ==
    /\ Len(y_true) > 0
    /\ recall_target \notin DOMAIN selected
    /\ selected' = [f \in DOMAIN selected \cup {recall_target} |->
                        IF f = recall_target
                        THEN choose_threshold_by_policy(y_true, y_proba, recall_target)
                        ELSE selected[f]]
    /\ UNCHANGED <<y_true, y_proba, reducerVars, trainVars, loadVars, last,
                   prepVars, cvVars, frameVars, equivVars>>

ThresholdNext ==
    \/ \E label \in {0, 1}, proba \in ProbaValues : AppendRow(label, proba)
    \/ \E f \in RecallFloors : ChooseThreshold(f)

(***************************************************************************)
(* The training run (train.py, main) and the artifacts directory.          *)
(*                                                                         *)
(* A file is absent, partial (opened for writing, truncated, not yet       *)
(* closed) or complete.  The data of a complete file carries the number of *)
(* the run that wrote it.  The fitted pipeline is identified by the        *)
(* estimator it wraps; a threshold table by the candidate it was computed  *)
(* for.  The metrics of a candidate's cross-validation are outputs of the  *)
(* learning library and are drawn from small sets.                         *)
(***************************************************************************)
MaxRuns == 2
Scores == {1, 2}
ThresholdChoices == {300, 500}

\* build_models: the dict keeps insertion order.
ModelNames == <<"logreg", "rf">>

\* The training feature columns, X.columns.
FeatureColumns == <<"f2", "f1">>

FileNames == {"cv_results.csv", "threshold_analysis.csv", "model.joblib",
              "threshold.json", "feature_columns.json"}

AbsentFile == [state |-> "absent", data |-> [run |-> 0]]
PartialFile == [state |-> "partial", data |-> [run |-> 0]]
CompleteFile(d) == [state |-> "complete", data |-> d]

NoName == "none"

\* The module train.py runs as: "__main__" when started as a script (python
\* src/train.py), "train" when imported with src/ on sys.path, "src.train"
\* when imported through the package from the project folder, and main() is
\* called.  pickle stores the TopCategoryReducer of the pipeline as a
\* reference to that module.
ClassModules == {"__main__", "train", "src.train"}

\* Variant: the same keys sorted ascending.
AscendingResultSortsBefore(a, b) ==
    \/ a.pr_auc < b.pr_auc
    \/ a.pr_auc = b.pr_auc /\ a.roc_auc < b.roc_auc

\* Row a sorts strictly before row b under
\* sort_values(by=["pr_auc", "roc_auc"], ascending=False).
ResultSortsBefore(a, b) ==
    \/ a.pr_auc > b.pr_auc
    \/ a.pr_auc = b.pr_auc /\ a.roc_auc > b.roc_auc

\* The stable lexsort places row j in front of row i.
ResultPlacedBefore(rs, j, i) ==
    \/ ResultSortsBefore(rs[j], rs[i])
    \/ ~ResultSortsBefore(rs[i], rs[j]) /\ j < i

\* df_results: the results in sorted order.
SortResults(rs) ==
    [k \in 1..Len(rs) |->
        rs[CHOOSE i \in 1..Len(rs) :
              Cardinality({j \in 1..Len(rs) : ResultPlacedBefore(rs, j, i)}) = k - 1]]

\* A step of the training run leaves the rest alone.
TrainFrame ==
    UNCHANGED <<thresholdVars, reducerVars, loadVars, last, prepVars, cvVars,
                frameVars, equivVars>>

TrainInit ==
    /\ fs = [f \in FileNames |-> AbsentFile]
    /\ run = 0
    /\ train_pc = "idle"
    /\ results = <<>>
    /\ threshold_tables = [n \in {} |-> 0]
    /\ best_name = NoName
    /\ best_threshold = 0
    /\ completed = {}

\* main up to build_models: a new process, its locals empty.
StartRun ==
    /\ train_pc \in {"idle", "done", "failed"}
    /\ run < MaxRuns
    /\ run' = run + 1
    /\ train_pc' = "evaluating"
    /\ results' = <<>>
    /\ threshold_tables' = [n \in {} |-> 0]
    /\ best_name' = NoName
    /\ best_threshold' = 0
    /\ UNCHANGED <<fs, completed>>
    /\ TrainFrame

\* Variant: the report is rewritten inside the loop, after each candidate.
EvaluateModelAndReport(roc, pr, t) ==
    /\ train_pc = "evaluating"
    /\ Len(results) < Len(ModelNames)
    /\ LET name == ModelNames[Len(results) + 1]
       IN /\ results' = Append(results,
                 [model_name |-> name, roc_auc |-> roc, pr_auc |-> pr, threshold |-> t])
          /\ threshold_tables' =
                 [n \in DOMAIN threshold_tables \cup {name} |->
                     IF n = name THEN [model_name |-> name, run |-> run]
                     ELSE threshold_tables[n]]
    /\ fs' = [fs EXCEPT !["cv_results.csv"] = CompleteFile([run |-> run])]
    /\ UNCHANGED <<run, train_pc, best_name, best_threshold, completed>>
    /\ TrainFrame

\* One iteration of the loop over models.items(): evaluate_model_cv returns
\* the candidate's CVResult and threshold table.
EvaluateModel(roc, pr, t) ==
    /\ train_pc = "evaluating"
    /\ Len(results) < Len(ModelNames)
    /\ LET name == ModelNames[Len(results) + 1]
       IN /\ results' = Append(results,
                 [model_name |-> name, roc_auc |-> roc, pr_auc |-> pr, threshold |-> t])
          /\ threshold_tables' =
                 [n \in DOMAIN threshold_tables \cup {name} |->
                     IF n = name THEN [model_name |-> name, run |-> run]
                     ELSE threshold_tables[n]]
    /\ UNCHANGED <<fs, run, train_pc, best_name, best_threshold, completed>>
    /\ TrainFrame

\* The loop is over: df_results.to_csv opens cv_results.csv for writing,
\* which creates or truncates the file.
OpenCvResults ==
    /\ train_pc = "evaluating"
    /\ Len(results) = Len(ModelNames)
    /\ fs' = [fs EXCEPT !["cv_results.csv"] = PartialFile]
    /\ train_pc' = "writing_cv"
    /\ UNCHANGED <<run, results, threshold_tables, best_name, best_threshold, completed>>
    /\ TrainFrame

\* to_csv writes the sorted df_results and closes cv_results.csv; best_name
\* and best_threshold are read from the first row.
WriteCvResults ==
    /\ train_pc = "writing_cv"
    /\ LET df_results == SortResults(results)
       IN /\ fs' = [fs EXCEPT !["cv_results.csv"] = CompleteFile([run |-> run])]
          /\ best_name' = df_results[1].model_name
          /\ best_threshold' = df_results[1].threshold
    /\ train_pc' = "selected"
    /\ UNCHANGED <<run, results, threshold_tables, completed>>
    /\ TrainFrame

\* threshold_tables[best_name].to_csv opens threshold_analysis.csv for
\* writing, which creates or truncates the file.
OpenThresholdAnalysis ==
    /\ train_pc = "selected"
    /\ fs' = [fs EXCEPT !["threshold_analysis.csv"] = PartialFile]
    /\ train_pc' = "writing_analysis"
    /\ UNCHANGED <<run, results, threshold_tables, best_name, best_threshold, completed>>
    /\ TrainFrame

\* to_csv writes the table of the selected candidate and closes the file.
WriteThresholdAnalysis ==
    /\ train_pc = "writing_analysis"
    /\ fs' = [fs EXCEPT !["threshold_analysis.csv"] =
                 CompleteFile(threshold_tables[best_name])]
    /\ train_pc' = "analysis_written"
    /\ UNCHANGED <<run, results, threshold_tables, best_name, best_threshold, completed>>
    /\ TrainFrame

\* fit_final_model(models[best_name], ...), then joblib.dump opens
\* model.joblib for writing.
BeginDumpModel ==
    /\ train_pc = "analysis_written"
    /\ fs' = [fs EXCEPT !["model.joblib"] = PartialFile]
    /\ train_pc' = "dumping"
    /\ UNCHANGED <<run, results, threshold_tables, best_name, best_threshold, completed>>
    /\ TrainFrame

\* joblib.dump returns: model.joblib holds the fitted pipeline, its
\* TopCategoryReducer pickled as a reference to the module this process
\* runs train.py as.
FinishDumpModel(module) ==
    /\ train_pc = "dumping"
    /\ fs' = [fs EXCEPT !["model.joblib"] =
                 CompleteFile([run |-> run, estimator |-> best_name,
                               defined_in |-> module])]
    /\ train_pc' = "dumped"
    /\ UNCHANGED <<run, results, threshold_tables, best_name, best_threshold, completed>>
    /\ TrainFrame

\* open(threshold.json, "w") truncates the file.
OpenThresholdJson ==
    /\ train_pc = "dumped"
    /\ fs' = [fs EXCEPT !["threshold.json"] = PartialFile]
    /\ train_pc' = "writing_threshold"
    /\ UNCHANGED <<run, results, threshold_tables, best_name, best_threshold, completed>>
    /\ TrainFrame

\* json.dump and the end of the with block: threshold.json is closed.
WriteThresholdJson ==
    /\ train_pc = "writing_threshold"
    /\ fs' = [fs EXCEPT !["threshold.json"] =
                 CompleteFile([run |-> run, model_name |-> best_name,
                               threshold |-> best_threshold])]
    /\ train_pc' = "threshold_written"
    /\ UNCHANGED <<run, results, threshold_tables, best_name, best_threshold, completed>>
    /\ TrainFrame

\* The closing print succeeds and main returns 0.
ReturnFromMain ==
    /\ train_pc = "threshold_written"
    /\ train_pc' = "done"
    /\ completed' = completed \cup {run}
    /\ UNCHANGED <<fs, run, results, threshold_tables, best_name, best_threshold>>
    /\ TrainFrame

\* An exception in any step (unreadable input, a failing fit, a failing
\* write, a print to a closed stdout) or a kill of the process ends the run
\* where it is; a file that was open for writing stays incomplete.
FailRun ==
    /\ train_pc \notin {"idle", "done", "failed"}
    /\ train_pc' = "failed"
    /\ UNCHANGED <<fs, run, results, threshold_tables, best_name, best_threshold,
                   completed>>
    /\ TrainFrame

\* The schema artifact is not written by main: load_assets asks for it to be
\* created by a separate step that saves X.columns.
SaveFeatureColumns ==
    /\ fs["feature_columns.json"].state = "absent"
    /\ fs' = [fs EXCEPT !["feature_columns.json"] =
                 CompleteFile([run |-> 0, columns |-> FeatureColumns])]
    /\ UNCHANGED <<run, train_pc, results, threshold_tables, best_name,
                   best_threshold, completed>>
    /\ TrainFrame

(***************************************************************************)
(* load_assets (model_loader.py), run by the startup event of a serving    *)
(* process while training runs may be writing the directory.               *)
(***************************************************************************)
None == [kind |-> "None"]

NoRequest == [endpoint |-> "none"]

\* A process about to run its startup event; ASSETS: ModelAssets | None = None.
\* sys.path is the environment's: on_paths holds the cases considered.
LoadInit(on_paths) ==
    /\ load_pc = "idle"
    /\ ld_model = None
    /\ ld_threshold = None
    /\ ASSETS = None
    /\ startup_runs = TRUE
    /\ src_on_path \in on_paths
    /\ last = NoRequest

\* A step of load_assets leaves the rest alone.
LoadFrame ==
    UNCHANGED <<thresholdVars, reducerVars, trainVars, startup_runs, src_on_path,
                last, prepVars, cvVars, frameVars, equivVars>>

\* The three exists() checks.
CheckArtifactsExist ==
    /\ startup_runs
    /\ load_pc = "idle"
    /\ load_pc' = IF \E f \in {"model.joblib", "threshold.json", "feature_columns.json"} :
                        fs[f].state = "absent"
                  THEN "failed" ELSE "checked"
    /\ UNCHANGED <<ld_model, ld_threshold, ASSETS>>
    /\ LoadFrame

\* Whether the serving process can resolve the class reference of a pickled
\* pipeline.  Its __main__ is the server (or the test runner), which has no
\* TopCategoryReducer, and app/ imports none; the module train is found
\* only with src/ on sys.path; src.train is found from the project folder,
\* which app.main itself is imported from.
Unpickles(data, on_path) ==
    \/ data.defined_in = "src.train"
    \/ data.defined_in = "train" /\ on_path

\* model = joblib.load(model_path); a truncated pickle does not load, and a
\* complete one loads only if its class reference resolves (AttributeError
\* or ModuleNotFoundError otherwise).
LoadModel ==
    /\ load_pc = "checked"
    /\ IF /\ fs["model.joblib"].state = "complete"
          /\ Unpickles(fs["model.joblib"].data, src_on_path)
       THEN /\ ld_model' = [kind |-> "pipeline", run |-> fs["model.joblib"].data.run,
                            estimator |-> fs["model.joblib"].data.estimator]
            /\ load_pc' = "model_loaded"
       ELSE /\ ld_model' = ld_model
            /\ load_pc' = "failed"
    /\ UNCHANGED <<ld_threshold, ASSETS>>
    /\ LoadFrame

\* threshold_cfg = json.loads(threshold_path.read_text()); a truncated
\* document does not parse.
ReadThreshold ==
    /\ load_pc = "model_loaded"
    /\ IF fs["threshold.json"].state = "complete"
       THEN /\ ld_threshold' = [kind |-> "cfg", run |-> fs["threshold.json"].data.run,
                                model_name |-> fs["threshold.json"].data.model_name,
                                threshold |-> fs["threshold.json"].data.threshold]
            /\ load_pc' = "threshold_read"
       ELSE /\ ld_threshold' = ld_threshold
            /\ load_pc' = "failed"
    /\ UNCHANGED <<ld_model, ASSETS>>
    /\ LoadFrame

\* The schema is read and ModelAssets is returned; startup_event stores it.
ReadSchemaAndReturn ==
    /\ load_pc = "threshold_read"
    /\ IF fs["feature_columns.json"].state = "complete"
       THEN /\ ASSETS' = [kind |-> "ModelAssets",
                          model |-> ld_model,
                          threshold |-> ld_threshold.threshold,
                          model_name |-> ld_threshold.model_name,
                          threshold_run |-> ld_threshold.run,
                          feature_columns |-> fs["feature_columns.json"].data.columns]
            /\ load_pc' = "loaded"
       ELSE /\ ASSETS' = ASSETS
            /\ load_pc' = "failed"
    /\ UNCHANGED <<ld_model, ld_threshold>>
    /\ LoadFrame

(***************************************************************************)
(* The request handlers of the serving process (app/main.py).  The fitted  *)
(* pipeline is a black box: what predict_proba returns for a row, or       *)
(* whether it raises, is drawn from a small set.  Probabilities and the    *)
(* threshold are in thousandths.                                           *)
(***************************************************************************)
ExtraKeyNames == {"x1", "x2"}
FeatureValues == {"v1", "v2"}
ProbaOutcomes == {0, 300, 301, 500, 1000}

\* Python's None in a row.
PyNone == "None"

SeqToSet(seq) == {seq[i] : i \in 1..Len(seq)}

RequestKeys == SeqToSet(FeatureColumns) \cup ExtraKeyNames

\* The key names in the order sorted() gives them.
KeysSorted == <<"f1", "f2", "x1", "x2">>

\* PredictRequest.features: a mapping from some keys to values.
FeatureMappings == UNION {[K -> FeatureValues] : K \in SUBSET RequestKeys}

\* What model.predict_proba does with the row.
ModelOutcomes ==
    {[raises |-> FALSE, proba |-> p] : p \in ProbaOutcomes}
        \cup {[raises |-> TRUE, proba |-> 0]}

\* Variant: no key is ever reported as extra.
NoExtraKeys(feature_columns, provided) == <<>>

\* sorted(set(provided.keys()) - set(ASSETS.feature_columns))
ExtraKeys(feature_columns, provided) ==
    SelectSeq(KeysSorted,
              LAMBDA k : k \in DOMAIN provided \ SeqToSet(feature_columns))

\* Variant: the frame is built from the provided mapping alone, without the
\* columns argument: it has the provided keys as columns.
frame_of_provided_only(feature_columns, provided_features) ==
    LET keys == SelectSeq(KeysSorted, LAMBDA k : k \in DOMAIN provided_features)
    IN [kind |-> "DataFrame",
        columns |-> keys,
        row |-> [i \in 1..Len(keys) |-> provided_features[keys[i]]]]

\* make_input_frame: one row over the schema columns, in schema order; None
\* where no value was provided.
make_input_frame(feature_columns, provided_features) ==
    LET row == [c \in SeqToSet(feature_columns) \cup DOMAIN provided_features |->
                   IF c \in DOMAIN provided_features
                   THEN provided_features[c] ELSE PyNone]
    IN [kind |-> "DataFrame",
        columns |-> feature_columns,
        row |-> [i \in 1..Len(feature_columns) |-> row[feature_columns[i]]]]

\* Variant: a strict comparison against the threshold.
StrictLabel(proba, threshold) == IF proba > threshold THEN 1 ELSE 0

\* label = 1 if proba >= ASSETS.threshold else 0
Label(proba, threshold) == IF proba >= threshold THEN 1 ELSE 0

\* Requests are served once the startup event has loaded the bundle, or by a
\* process that never runs the startup event (a test client constructed
\* directly on the app).  A failed startup ends the process.
Serving == IF startup_runs THEN load_pc = "loaded" ELSE load_pc = "idle"

\* Whether this process has answered a scoring failure before the request
\* now handled (kept with the response for the claims; no handler reads it).
AfterFailure ==
    /\ last.endpoint # "none"
    /\ last.after_failure \/ (last.endpoint = "predict" /\ last.status = 400)

Response(endpoint, features, status, body, frame, model_called) ==
    [endpoint |-> endpoint, features |-> features, status |-> status,
     body |-> body, frame |-> frame, model_called |-> model_called,
     after_failure |-> AfterFailure]

NoFeatures == [k \in {} |-> PyNone]

\* A request handler leaves the loader's locals and the rest alone; what it
\* does to ASSETS is stated handler by handler.
ServeFrame ==
    UNCHANGED <<thresholdVars, reducerVars, trainVars, load_pc, ld_model,
                ld_threshold, startup_runs, src_on_path, prepVars, cvVars,
                frameVars, equivVars>>

\* Variant: the payload claims a loaded model in every state.
health_always_ok(assets) ==
    [status |-> "ok", model_loaded |-> TRUE,
     model_name |-> IF assets # None THEN assets.model_name ELSE PyNone]

\* The payload of health().
health(assets) ==
    LET ok == assets # None
    IN [status |-> IF ok THEN "ok" ELSE "not_ready",
        model_loaded |-> ok,
        model_name |-> IF ok THEN assets.model_name ELSE PyNone]

\* GET /health
Health ==
    /\ Serving
    /\ last' = Response("health", NoFeatures, 200, health(ASSETS), None, FALSE)
    /\ UNCHANGED ASSETS
    /\ ServeFrame

\* GET /metadata
Metadata ==
    /\ Serving
    /\ last' = IF ASSETS = None
               THEN Response("metadata", NoFeatures, 503,
                        [detail |-> "Model is not loaded yet."], None, FALSE)
               ELSE Response("metadata", NoFeatures, 200,
                        [model_name |-> ASSETS.model_name,
                         threshold |-> ASSETS.threshold,
                         n_features |-> Len(ASSETS.feature_columns),
                         feature_columns |-> ASSETS.feature_columns],
                        None, FALSE)
    /\ UNCHANGED ASSETS
    /\ ServeFrame

\* Variant: the schema list is sorted in place while the row is built.
SortsSchemaInPlace(feature_columns, provided_features) ==
    [feature_columns |->
        SelectSeq(KeysSorted, LAMBDA k : k \in SeqToSet(feature_columns)),
     provided_features |-> provided_features]

\* The two arguments of make_input_frame after the call: row is a new dict
\* and the only object the function writes.
ArgumentsAfter(feature_columns, provided_features) ==
    [feature_columns |-> feature_columns,
     provided_features |-> provided_features]

\* Variant: the exception of predict_proba is not caught and the framework
\* answers with a server error.
PredictionUnhandled(features, X) ==
    Response("predict", features, 500, [detail |-> "Internal Server Error"], X, TRUE)

\* except Exception: raise HTTPException(status_code=400, ...)
PredictionFailed(features, X) ==
    Response("predict", features, 400, [detail |-> "Prediction failed"], X, TRUE)

\* The body of predict once ASSETS is known to be loaded.
PredictLoaded(features, outcome) ==
    LET extra_keys == ExtraKeys(ASSETS.feature_columns, features)
        X == make_input_frame(ASSETS.feature_columns, features)
    IN IF extra_keys # <<>>
       THEN Response("predict", features, 422,
                [detail |-> [message |-> "Unknown feature keys were provided.",
                             extra_keys |-> extra_keys]],
                None, FALSE)
       ELSE IF outcome.raises
       THEN PredictionFailed(features, X)
       ELSE Response("predict", features, 200,
                [probability |-> outcome.proba,
                 label |-> Label(outcome.proba, ASSETS.threshold),
                 threshold |-> ASSETS.threshold,
                 model_name |-> ASSETS.model_name],
                X, TRUE)

\* POST /predict
Predict(features, outcome) ==
    /\ Serving
    /\ last' = IF ASSETS = None
               THEN Response("predict", features, 503,
                        [detail |-> "Model is not loaded yet."], None, FALSE)
               ELSE PredictLoaded(features, outcome)
    /\ ASSETS' = IF ASSETS = None \/ ExtraKeys(ASSETS.feature_columns, features) # <<>>
                 THEN ASSETS
                 ELSE [ASSETS EXCEPT !.feature_columns =
                          ArgumentsAfter(ASSETS.feature_columns, features).feature_columns]
    /\ ServeFrame

\* The artifacts directory a serving process finds: written by a completed
\* training run, with or without the schema artifact added.
BundleDirectory(name, t, with_schema, module) ==
    [f \in FileNames |->
        CASE f = "cv_results.csv" -> CompleteFile([run |-> 1])
          [] f = "threshold_analysis.csv" -> CompleteFile([model_name |-> name, run |-> 1])
          [] f = "model.joblib" ->
                CompleteFile([run |-> 1, estimator |-> name, defined_in |-> module])
          [] f = "threshold.json" ->
                CompleteFile([run |-> 1, model_name |-> name, threshold |-> t])
          [] OTHER -> IF with_schema
                      THEN CompleteFile([run |-> 0, columns |-> FeatureColumns])
                      ELSE AbsentFile]

ServeInit ==
    /\ \E i \in 1..Len(ModelNames), t \in ThresholdChoices, with_schema \in BOOLEAN,
          module \in ClassModules :
          fs = BundleDirectory(ModelNames[i], t, with_schema, module)
    /\ run = 1
    /\ train_pc = "exited"
    /\ results = <<>>
    /\ threshold_tables = [n \in {} |-> 0]
    /\ best_name = NoName
    /\ best_threshold = 0
    /\ completed = {1}
    /\ load_pc = "idle"
    /\ ld_model = None
    /\ ld_threshold = None
    /\ ASSETS = None
    /\ startup_runs \in BOOLEAN
    /\ src_on_path \in BOOLEAN
    /\ last = NoRequest

ServeNext ==
    \/ CheckArtifactsExist
    \/ LoadModel
    \/ ReadThreshold
    \/ ReadSchemaAndReturn
    \/ Health
    \/ Metadata
    \/ \E features \in FeatureMappings, outcome \in ModelOutcomes :
          Predict(features, outcome)

(***************************************************************************)
(* prepare_xy (train.py).  The encounter table has ordered, distinct       *)
(* column names.  A row is given by its label and one more value: the      *)
(* columns derived from the readmission outcome hold the label (0 or 1),   *)
(* every other column holds the other value.                               *)
(***************************************************************************)
MaxColumns == 4
MaxDfRows == 2

\* The list drop_cols, before it is restricted to the columns present.
drop_cols == <<"readmitted", "readmission_30d", "readmission_any",
               "encounter_id", "patient_nbr">>

\* Column names a table may have, and the values of --target.
ColumnNames == SeqToSet(drop_cols) \cup {"age", "outcome"}
TargetNames == {"readmission_30d", "outcome"}
LabelColumns == {"readmitted", "readmission_30d", "readmission_any", "outcome"}

NoResult == [kind |-> "none"]

\* The cell of a column in a row.
CellOf(col, row) == IF col \in LabelColumns THEN row.label ELSE row.other

\* The DataFrame with the given columns and rows.
DataFrame(columns, rows) ==
    [columns |-> columns,
     rows |-> [i \in 1..Len(rows) |->
                  [c \in SeqToSet(columns) |-> CellOf(c, rows[i])]]]

\* Variant: only the outcome columns are dropped, the identifiers stay.
DropOutcomesOnly(columns, dropped) ==
    SelectSeq(columns,
              LAMBDA c : c \notin SeqToSet(dropped) \ {"encounter_id", "patient_nbr"})

\* df.drop(columns=drop_cols): the remaining columns, in the order of df.
Drop(columns, dropped) ==
    SelectSeq(columns, LAMBDA c : c \notin SeqToSet(dropped))

\* Series.astype(int) of an int8 label.
astype_int(v) == v

prepare_xy(df, target) ==
    IF target \notin SeqToSet(df.columns)
    THEN [kind |-> "raise", error |-> "ValueError"]
    ELSE LET y == [i \in 1..Len(df.rows) |-> astype_int(df.rows[i][target])]
             present == SelectSeq(drop_cols, LAMBDA c : c \in SeqToSet(df.columns))
             kept == Drop(df.columns, present)
             X == [columns |-> kept,
                   rows |-> [i \in 1..Len(df.rows) |->
                                [c \in SeqToSet(kept) |-> df.rows[i][c]]]]
         IN [kind |-> "return", X |-> X, y |-> y]

PrepInit ==
    /\ df_columns = <<>>
    /\ df_rows = <<>>
    /\ target_col \in TargetNames
    /\ prepared = NoResult

\* No table is being prepared (the other specifications).
PrepIdle ==
    /\ df_columns = <<>>
    /\ df_rows = <<>>
    /\ target_col = "readmission_30d"
    /\ prepared = NoResult

PrepFrame ==
    UNCHANGED <<thresholdVars, reducerVars, trainVars, loadVars, last, cvVars,
                frameVars, equivVars>>

\* The table gets one more column.
AddColumn(name) ==
    /\ prepared = NoResult
    /\ df_rows = <<>>
    /\ Len(df_columns) < MaxColumns
    /\ name \notin SeqToSet(df_columns)
    /\ df_columns' = Append(df_columns, name)
    /\ UNCHANGED <<df_rows, target_col, prepared>>
    /\ PrepFrame

\* The table gets one more row.
AddDfRow(row) ==
    /\ prepared = NoResult
    /\ df_columns # <<>>
    /\ Len(df_rows) < MaxDfRows
    /\ df_rows' = Append(df_rows, row)
    /\ UNCHANGED <<df_columns, target_col, prepared>>
    /\ PrepFrame

\* X, y = prepare_xy(df, target_col=args.target)
PrepareXY ==
    /\ prepared = NoResult
    /\ prepared' = prepare_xy(DataFrame(df_columns, df_rows), target_col)
    /\ UNCHANGED <<df_columns, df_rows, target_col>>
    /\ PrepFrame

PrepNext ==
    \/ \E name \in ColumnNames : AddColumn(name)
    \/ \E label \in {0, 1}, other \in {0, 1} :
          AddDfRow([label |-> label, other |-> other])
    \/ PrepareXY

(***************************************************************************)
(* The cross-validated predictions of evaluate_model_cv (train.py):        *)
(* cross_val_predict over a shuffled StratifiedKFold with n_jobs=-1.  Each *)
(* fold is a job that fits a clone of the pipeline on the rows outside the *)
(* fold and scores the rows of the fold; the jobs run in parallel and      *)
(* complete in any order.  A probability is identified by the rows the     *)
(* pipeline that produced it was fitted on and the row it scores.          *)
(***************************************************************************)
MaxCvRows == 4
MaxSplits == 3

\* cv.split(X, y): every row position is in the test set of exactly one
\* fold and no fold is empty.
Splits(n, k) ==
    {tf \in [1..n -> 1..k] : \A f \in 1..k : \E r \in 1..n : tf[r] = f}

\* The members of a set of row positions in ascending order.
Ascending(S) ==
    [i \in 1..Cardinality(S) |->
        CHOOSE x \in S : Cardinality({z \in S : z < x}) = i - 1]

\* The test and train indices of fold f.
test_indices(tf, f) == Ascending({r \in DOMAIN tf : tf[r] = f})
train_indices(tf, f) == {r \in DOMAIN tf : tf[r] # f}

\* predict_proba of the pipeline fitted on the rows fit_on, for row r.
Proba(fit_on, r) == [fit_on |-> fit_on, row |-> r]

PendingJob == [state |-> "pending", fit_on |-> {}, predictions |-> <<>>]

\* np.concatenate of a sequence of arrays.
RECURSIVE Concatenate(_)
Concatenate(arrays) ==
    IF arrays = <<>> THEN <<>>
    ELSE Head(arrays) \o Concatenate(Tail(arrays))

\* Variant: the results are collected as the jobs complete.
ArrivalOrder(k, arr) == arr

\* The parallel call returns the results of the jobs in the order the jobs
\* were submitted, fold 1 first.
ResultOrder(k, arr) == [f \in 1..k |-> f]

\* The end of cross_val_predict: the predictions of all folds concatenated,
\* then reordered by the inverse of the concatenated test indices.
MergePredictions(tf, js, arr) ==
    LET k == Len(js)
        all_test == Concatenate([f \in 1..k |-> test_indices(tf, f)])
        order == ResultOrder(k, arr)
        predictions == Concatenate([i \in 1..k |-> js[order[i]].predictions])
        inv_test_indices ==
            [r \in DOMAIN tf |-> CHOOSE j \in 1..Len(all_test) : all_test[j] = r]
    IN [r \in DOMAIN tf |-> predictions[inv_test_indices[r]]]

CvInit ==
    /\ test_fold = <<>>
    /\ jobs = <<>>
    /\ arrival = <<>>
    /\ oof_proba = <<>>

CvFrame ==
    UNCHANGED <<thresholdVars, reducerVars, trainVars, loadVars, last, prepVars,
                frameVars, equivVars>>

\* cv.split for a table of n rows and n_splits = k; one job per fold.
Split(n, k) ==
    /\ test_fold = <<>>
    /\ k <= n
    /\ test_fold' \in Splits(n, k)
    /\ jobs' = [f \in 1..k |-> PendingJob]
    /\ UNCHANGED <<arrival, oof_proba>>
    /\ CvFrame

\* The job of fold f fits its clone of the pipeline on the train indices.
FitFold(f) ==
    /\ f \in DOMAIN jobs
    /\ jobs[f].state = "pending"
    /\ jobs' = [jobs EXCEPT ![f] = [state |-> "fitted",
                                    fit_on |-> train_indices(test_fold, f),
                                    predictions |-> <<>>]]
    /\ UNCHANGED <<test_fold, arrival, oof_proba>>
    /\ CvFrame

\* The job of fold f scores its test rows and completes.
PredictFold(f) ==
    /\ f \in DOMAIN jobs
    /\ jobs[f].state = "fitted"
    /\ LET test == test_indices(test_fold, f)
       IN jobs' = [jobs EXCEPT ![f] =
                      [state |-> "done",
                       fit_on |-> jobs[f].fit_on,
                       predictions |->
                           [i \in 1..Len(test) |-> Proba(jobs[f].fit_on, test[i])]]]
    /\ arrival' = Append(arrival, f)
    /\ UNCHANGED <<test_fold, oof_proba>>
    /\ CvFrame

\* All jobs are done: cross_val_predict returns.
CrossValPredictReturns ==
    /\ jobs # <<>>
    /\ \A f \in DOMAIN jobs : jobs[f].state = "done"
    /\ oof_proba = <<>>
    /\ oof_proba' = MergePredictions(test_fold, jobs, arrival)
    /\ UNCHANGED <<test_fold, jobs, arrival>>
    /\ CvFrame

CvNext ==
    \/ \E n \in 2..MaxCvRows, k \in 2..MaxSplits : Split(n, k)
    \/ \E f \in 1..MaxSplits : FitFold(f)
    \/ \E f \in 1..MaxSplits : PredictFold(f)
    \/ CrossValPredictReturns

(***************************************************************************)
(* make_input_frame (model_loader.py) called on its own: the caller holds   *)
(* a schema list and a mapping of provided features.                       *)
(***************************************************************************)
MaxSchema == 3

FrameFrame ==
    UNCHANGED <<thresholdVars, reducerVars, trainVars, loadVars, last, prepVars,
                cvVars, equivVars>>

FrameInit ==
    /\ schema_arg = <<>>
    /\ provided_arg = NoFeatures
    /\ frame_call = NoResult

\* The caller's schema list gets one more column name.
AppendSchemaColumn(name) ==
    /\ frame_call = NoResult
    /\ Len(schema_arg) < MaxSchema
    /\ name \notin SeqToSet(schema_arg)
    /\ schema_arg' = Append(schema_arg, name)
    /\ UNCHANGED <<provided_arg, frame_call>>
    /\ FrameFrame

\* The caller's mapping gets a value for a key.
SetFeature(key, value) ==
    /\ frame_call = NoResult
    /\ key \notin DOMAIN provided_arg
    /\ provided_arg' = [k \in DOMAIN provided_arg \cup {key} |->
                           IF k = key THEN value ELSE provided_arg[k]]
    /\ UNCHANGED <<schema_arg, frame_call>>
    /\ FrameFrame

\* make_input_frame(schema_arg, provided_arg)
MakeInputFrame ==
    /\ frame_call = NoResult
    /\ frame_call' = [kind |-> "call",
                      feature_columns |-> schema_arg,
                      provided_features |-> provided_arg,
                      returned |-> make_input_frame(schema_arg, provided_arg)]
    /\ schema_arg' = ArgumentsAfter(schema_arg, provided_arg).feature_columns
    /\ provided_arg' = ArgumentsAfter(schema_arg, provided_arg).provided_features
    /\ FrameFrame

FrameNext ==
    \/ \E name \in RequestKeys : AppendSchemaColumn(name)
    \/ \E key \in RequestKeys, value \in FeatureValues : SetFeature(key, value)
    \/ MakeInputFrame

(***************************************************************************)
(* The second TopCategoryReducer (readmission_risk/custom_transformers.py) *)
(* and a caller that holds one instance of each implementation, fits both  *)
(* on its table and applies both to its table.                             *)
(***************************************************************************)
other_label_2 == "__OTHER__"

\* Series.astype(str) applies str() to each element: NaN becomes "nan", None
\* becomes "None", pd.NA becomes "<NA>", a text stays.
astype_str(cell) == cell.text

\* X_df[col].astype(str), as a column of text cells.
AsStrColumn(column) == [i \in 1..Len(column) |-> Text(astype_str(column[i]))]

\* fit of the second implementation: the possible values of top_categories_.
\* value_counts(dropna=False) runs on the string column, where nothing is
\* missing any more.
fit_2(X, k) ==
    LET tops == [col \in DOMAIN X |-> KeepSets(AsStrColumn(X[col]), k)]
    IN {tc \in [DOMAIN X -> UNION {tops[col] : col \in DOMAIN X}] :
            \A col \in DOMAIN X : tc[col] \in tops[col]}

\* astype(str).where(astype(str).isin(allowed), other_label), cell by cell.
TransformCell_2(cell, allowed) ==
    IF astype_str(cell) \in allowed
    THEN Text(astype_str(cell))
    ELSE Text(other_label_2)

\* transform of the second implementation; top_categories_ is None until
\* fit, and None has no get: the first iteration of the loop over the
\* columns raises, a table without columns is returned as it is.
transform_2(X, tc) ==
    IF tc = None /\ DOMAIN X # {}
    THEN [kind |-> "raise", error |-> "AttributeError"]
    ELSE [kind |-> "table",
          out |-> [col \in DOMAIN X |->
                     [i \in 1..Len(X[col]) |->
                         TransformCell_2(X[col][i], KeepOf(tc, col))]]]

\* __init__ of the second implementation.
EquivInit ==
    /\ top_categories_ = None
    /\ transformed_2 = NoTable

EquivFrame ==
    UNCHANGED <<thresholdVars, trainVars, loadVars, last, prepVars, cvVars,
                frameVars>>

\* first.fit(X_arg); second.fit(X_arg)
FitBoth ==
    /\ keep_values_' \in fit(X_arg, top_k)
    /\ top_categories_' \in fit_2(X_arg, top_k)
    /\ fitted' = TRUE
    /\ transformed' = NoTable
    /\ transformed_2' = NoTable
    /\ UNCHANGED <<top_k, X_arg>>
    /\ EquivFrame

\* first.transform(X_arg); second.transform(X_arg)
TransformBoth ==
    /\ transformed' = [kind |-> "table", out |-> transform(X_arg, keep_values_)]
    /\ transformed_2' = transform_2(X_arg, top_categories_)
    /\ UNCHANGED <<top_k, keep_values_, top_categories_, fitted, X_arg>>
    /\ EquivFrame

\* The caller builds its table, fits both reducers, may add rows, and then
\* applies both.
EquivNext ==
    \/ \E cols \in SUBSET Columns : ~fitted /\ NewTable(cols)
    \/ \E cols \in SUBSET Columns : \E row \in [cols -> AllCells] :
          transformed = NoTable /\ AppendTableRow(row)
    \/ FitBoth
    \/ TransformBoth

TrainNext ==
    \/ StartRun
    \/ \E roc \in Scores, pr \in Scores, t \in ThresholdChoices : EvaluateModel(roc, pr, t)
    \/ OpenCvResults
    \/ WriteCvResults
    \/ OpenThresholdAnalysis
    \/ WriteThresholdAnalysis
    \/ BeginDumpModel
    \/ \E module \in ClassModules : FinishDumpModel(module)
    \/ OpenThresholdJson
    \/ WriteThresholdJson
    \/ ReturnFromMain
    \/ FailRun
    \/ SaveFeatureColumns
    \/ CheckArtifactsExist
    \/ LoadModel
    \/ ReadThreshold
    \/ ReadSchemaAndReturn

InitThreshold ==
    ThresholdInit /\ ReducerIdle /\ TrainInit /\ LoadInit({FALSE})
        /\ PrepIdle /\ CvInit /\ FrameInit /\ EquivInit

SpecThreshold == InitThreshold /\ [][ThresholdNext]_vars

InitReducer ==
    ReducerInit /\ ThresholdInit /\ TrainInit /\ LoadInit({FALSE})
        /\ PrepIdle /\ CvInit /\ FrameInit /\ EquivInit

SpecReducer == InitReducer /\ [][ReducerNext]_vars

InitTrain ==
    TrainInit /\ LoadInit(BOOLEAN) /\ ThresholdInit /\ ReducerIdle /\ PrepIdle /\ CvInit
        /\ FrameInit /\ EquivInit

SpecTrain == InitTrain /\ [][TrainNext]_vars

InitServe ==
    ServeInit /\ ThresholdInit /\ ReducerIdle /\ PrepIdle /\ CvInit
        /\ FrameInit /\ EquivInit

SpecServe == InitServe /\ [][ServeNext]_vars

InitPrep ==
    PrepInit /\ ThresholdInit /\ ReducerIdle /\ TrainInit /\ LoadInit({FALSE})
        /\ CvInit /\ FrameInit /\ EquivInit

SpecPrep == InitPrep /\ [][PrepNext]_vars

InitCv ==
    CvInit /\ ThresholdInit /\ ReducerIdle /\ TrainInit /\ LoadInit({FALSE})
        /\ PrepIdle /\ FrameInit /\ EquivInit

SpecCv == InitCv /\ [][CvNext]_vars

InitFrame ==
    FrameInit /\ ThresholdInit /\ ReducerIdle /\ TrainInit /\ LoadInit({FALSE})
        /\ PrepIdle /\ CvInit /\ EquivInit

SpecFrame == InitFrame /\ [][FrameNext]_vars

InitEquiv ==
    ReducerInit /\ EquivInit /\ ThresholdInit /\ TrainInit /\ LoadInit({FALSE})
        /\ PrepIdle /\ CvInit /\ FrameInit

SpecEquiv == InitEquiv /\ [][EquivNext]_vars

(***************************************************************************)
(* Claims about threshold selection, stated over the metrics of the grid   *)
(* rows of the current input vectors.                                      *)
(***************************************************************************)
GridIndex == 1..GridPoints

\* The table of the current input, as a one-element set to quantify over.
CurrentTable == {threshold_table(y_true, y_proba)}

MeetsFloor(row, floor) == row.recall[1] * 100 >= floor * row.recall[2]
FloorMet(tbl, floor) == \E k \in GridIndex : MeetsFloor(tbl[k], floor)

\* The grid rows the policy chooses among: those meeting the floor, or the
\* entire grid when none does.
Pool(tbl, floor) ==
    IF FloorMet(tbl, floor)
    THEN {k \in GridIndex : MeetsFloor(tbl[k], floor)}
    ELSE GridIndex

\* Row a is at least as good as row b: higher F1, then higher precision, then
\* lower threshold.
PolicyPrefers(a, b) ==
    \/ FracLess(b.f1, a.f1)
    \/ FracEq(b.f1, a.f1) /\ FracLess(b.precision, a.precision)
    \/ FracEq(b.f1, a.f1) /\ FracEq(b.precision, a.precision)
          /\ a.threshold <= b.threshold

\* The grid row of a returned threshold.
RowOf(tbl, t) == tbl[CHOOSE k \in GridIndex : tbl[k].threshold = t]

\* C1: the returned threshold is the member of the pool (the thresholds with
\* recall >= floor, or the whole grid when there is none) that maximizes F1,
\* ties broken by higher precision and then by the lowest threshold.
C1_PolicyOrder ==
    \A floor \in DOMAIN selected : \A tbl \in CurrentTable :
        \E k \in Pool(tbl, floor) :
            /\ tbl[k].threshold = selected[floor]
            /\ \A u \in Pool(tbl, floor) : PolicyPrefers(tbl[k], tbl[u])

\* Both floors were applied to one input; 0.70 is met and 0.90 is not, so one
\* selection is filtered and the other falls back to the whole grid, and the
\* filtered selection has a tied competitor at a higher threshold.
C1_Witness ==
    /\ DOMAIN selected = RecallFloors
    /\ \E tbl \in CurrentTable :
          /\ FloorMet(tbl, 70) /\ ~FloorMet(tbl, 90)
          /\ selected[70] # selected[90]
          /\ \E u \in Pool(tbl, 70) :
                /\ tbl[u].threshold > selected[70]
                /\ FracEq(tbl[u].f1, RowOf(tbl, selected[70]).f1)
                /\ FracEq(tbl[u].precision, RowOf(tbl, selected[70]).precision)

\* C2: the returned threshold is one of the 91 grid points 0.05, 0.06, ...,
\* 0.95, and whenever a grid point has recall >= floor the recall at the
\* returned threshold is >= floor.
C2_OnGridAndFloor ==
    \A floor \in DOMAIN selected : \A tbl \in CurrentTable :
        /\ \E k \in 0..90 : selected[floor] = 50 + 10 * k
        /\ \E k \in GridIndex :
              /\ tbl[k].threshold = selected[floor]
              /\ FloorMet(tbl, floor) => MeetsFloor(tbl[k], floor)

\* The floor is met and it decides the selection: a grid threshold below the
\* floor has a strictly higher F1 than the returned one.
C2_Witness ==
    \E floor \in DOMAIN selected : \E tbl \in CurrentTable :
        /\ FloorMet(tbl, floor)
        /\ \E u \in GridIndex :
              /\ ~MeetsFloor(tbl[u], floor)
              /\ FracLess(RowOf(tbl, selected[floor]).f1, tbl[u].f1)

\* The recall at the threshold selected under the 0.90 floor is not lower
\* than the recall at the threshold selected under the 0.70 floor.
RecallNotLowered(tbl) ==
    ~FracLess(RowOf(tbl, selected[90]).recall, RowOf(tbl, selected[70]).recall)

\* C3 as claimed: raising the floor from 0.70 to 0.90 never lowers the recall
\* at the selected threshold.
C3_RecallMonotone ==
    DOMAIN selected = RecallFloors =>
        \A tbl \in CurrentTable : RecallNotLowered(tbl)

\* C3 amended: the same, when 0.90 is met by some grid point or 0.70 by none.
C3_RecallMonotoneUnlessFallback ==
    DOMAIN selected = RecallFloors =>
        \A tbl \in CurrentTable :
            (FloorMet(tbl, 90) \/ ~FloorMet(tbl, 70)) => RecallNotLowered(tbl)

\* Both floors are met and the higher floor strictly raises the recall.
C3_Witness ==
    /\ DOMAIN selected = RecallFloors
    /\ \E tbl \in CurrentTable :
          /\ FloorMet(tbl, 90)
          /\ FracLess(RowOf(tbl, selected[70]).recall,
                      RowOf(tbl, selected[90]).recall)

(***************************************************************************)
(* Claims about TopCategoryReducer.                                        *)
(***************************************************************************)
\* The retained vocabulary of a column: empty for a column fit never saw.
Vocabulary(col) == IF col \in DOMAIN keep_values_ THEN keep_values_[col] ELSE {}

\* C9: after fit, transform returns a table of the same shape in which a
\* missing cell is still missing, a cell whose value is in the column's
\* retained vocabulary is unchanged, and every other cell is "Other".
C9_TransformCells ==
    (fitted /\ transformed # NoTable) =>
        /\ transformed.kind = "table"
        /\ DOMAIN transformed.out = DOMAIN X_arg
        /\ \A col \in DOMAIN X_arg :
              /\ Len(transformed.out[col]) = Len(X_arg[col])
              /\ \A i \in 1..Len(X_arg[col]) :
                    LET cell == X_arg[col][i]
                        out == transformed.out[col][i]
                    IN /\ cell.kind = "missing" => out = cell
                       /\ (cell.kind = "text" /\ cell.text \in Vocabulary(col)) =>
                              out = cell
                       /\ (cell.kind = "text" /\ cell.text \notin Vocabulary(col)) =>
                              out = [kind |-> "text", text |-> "Other"]

\* A fitted reducer transformed a column holding a missing cell, a retained
\* value and a value outside the vocabulary.
C9_Witness ==
    /\ fitted
    /\ transformed # NoTable
    /\ \E col \in DOMAIN X_arg : \E i, j, k \in 1..Len(X_arg[col]) :
          /\ X_arg[col][i].kind = "missing"
          /\ X_arg[col][j].kind = "text" /\ X_arg[col][j].text \in Vocabulary(col)
          /\ X_arg[col][k].kind = "text" /\ X_arg[col][k].text \notin Vocabulary(col)
          /\ transformed.out[col][k].text = "Other"

\* C10: a transform call that no fit call preceded fails with NotFittedError
\* and returns no table.
C10_TransformBeforeFitFails ==
    (~fitted /\ transformed # NoTable) => transformed.kind = "NotFittedError"

\* The texts of the non-missing cells of a column, and how often each occurs.
NonMissingTexts(column) ==
    {column[i].text : i \in {j \in 1..Len(column) : column[j].kind = "text"}}

Occurrences(column, t) ==
    Cardinality({i \in 1..Len(column) :
                    column[i].kind = "text" /\ column[i].text = t})

\* What C11 says of the vocabularies kv that fit computed from table X with
\* top_k = k.
TopKVocabulary(X, k, kv) ==
    /\ DOMAIN kv = DOMAIN X
    /\ \A col \in DOMAIN X :
          LET present == NonMissingTexts(X[col])
          IN /\ kv[col] \subseteq present
             /\ Cardinality(kv[col]) <= k
             /\ \A r \in kv[col] : \A d \in present \ kv[col] :
                    Occurrences(X[col], d) <= Occurrences(X[col], r)
             /\ Cardinality(present) <= k => kv[col] = present

\* C11: every fit call leaves, for each column of its table, a vocabulary
\* taken from the non-missing entries only, of at most top_k values, none of
\* which occurs less often than a discarded value, and equal to the set of
\* all non-missing values when there are at most top_k of them.
C11_FitKeepsTopK == [][Fit => TopKVocabulary(X_arg, top_k, keep_values_')]_vars

\* A reducer just fitted on a column with missing cells and with more
\* distinct values than top_k, one of them strictly more frequent: the less
\* frequent one was discarded.
C11_Witness ==
    /\ fitted
    /\ transformed = NoTable
    /\ keep_values_ \in fit(X_arg, top_k)
    /\ \E col \in DOMAIN X_arg :
          /\ \E i \in 1..Len(X_arg[col]) : X_arg[col][i].kind = "missing"
          /\ Cardinality(NonMissingTexts(X_arg[col])) > top_k
          /\ \E r \in keep_values_[col] :
                \E d \in NonMissingTexts(X_arg[col]) \ keep_values_[col] :
                    Occurrences(X_arg[col], d) < Occurrences(X_arg[col], r)

(***************************************************************************)
(* Claims about the training run and the bundle it writes.                 *)
(***************************************************************************)
BundleFiles == {"model.joblib", "threshold.json", "feature_columns.json"}

\* The files main writes.
WrittenByMain == {"cv_results.csv", "threshold_analysis.csv", "model.joblib",
                  "threshold.json"}

\* C19: a run that failed before every candidate was evaluated has selected
\* no model and has written neither a bundle artifact nor a report: a file
\* that is there was written by an earlier run, and in a first run all are
\* absent.
C19_FailedEvaluationWritesNothing ==
    (train_pc = "failed" /\ Len(results) < Len(ModelNames)) =>
        /\ best_name = NoName
        /\ run \notin completed
        /\ \A f \in WrittenByMain :
              /\ fs[f].state = "complete" => fs[f].data.run < run
              /\ run = 1 => fs[f] = AbsentFile

\* The second run failed after evaluating its first candidate; the bundle of
\* the first run is still in place.
C19_Witness ==
    /\ train_pc = "failed"
    /\ Len(results) = 1
    /\ run = 2
    /\ \A f \in WrittenByMain : fs[f].state = "complete" /\ fs[f].data.run = 1

\* C6: a serving process that loads the directory while training runs write
\* it obtains a pipeline, a threshold and a model name that all come from
\* the same run (or fails to load).  A run whose model.joblib and
\* threshold.json were both read complete has finished writing its bundle,
\* whether or not its main has returned yet.
C6_LoadedBundleFromOneRun ==
    ASSETS # None =>
        /\ ASSETS.model.run = ASSETS.threshold_run
        /\ ASSETS.model.estimator = ASSETS.model_name

\* C7: once the first training run, into an empty directory, has completed,
\* the directory holds the three bundle artifacts, the threshold document
\* with the run's selection.
C7_BundleCompleteAfterRun ==
    (train_pc = "done" /\ run = 1) =>
        /\ \A f \in BundleFiles : fs[f].state = "complete"
        /\ fs["threshold.json"].data.model_name = best_name
        /\ fs["threshold.json"].data.threshold = best_threshold
        /\ fs["feature_columns.json"].data.columns = FeatureColumns

\* Candidate r is ranked at least as high as candidate q: higher PR-AUC, or
\* equal PR-AUC and ROC-AUC not lower.
RankedAtLeast(r, q) ==
    \/ r.pr_auc > q.pr_auc
    \/ r.pr_auc = q.pr_auc /\ r.roc_auc >= q.roc_auc

\* C8: when a run has completed, threshold.json, threshold_analysis.csv and
\* the pipeline in model.joblib all belong to one candidate of this run,
\* which has maximal PR-AUC and, among those, maximal ROC-AUC.
C8_SelectionConsistent ==
    train_pc = "done" =>
        \E i \in 1..Len(results) :
            /\ \A j \in 1..Len(results) : RankedAtLeast(results[i], results[j])
            /\ fs["threshold.json"].data.run = run
            /\ fs["threshold.json"].data.model_name = results[i].model_name
            /\ fs["threshold.json"].data.threshold = results[i].threshold
            /\ fs["threshold_analysis.csv"].data.run = run
            /\ fs["threshold_analysis.csv"].data.model_name = results[i].model_name
            /\ fs["model.joblib"].data.run = run
            /\ fs["model.joblib"].data.estimator = results[i].model_name

\* A completed run in which the second candidate wins on ROC-AUC after a
\* PR-AUC tie, and the two candidates have different thresholds.
C8_Witness ==
    /\ train_pc = "done"
    /\ Len(results) = 2
    /\ results[1].pr_auc = results[2].pr_auc
    /\ results[1].roc_auc < results[2].roc_auc
    /\ results[1].threshold # results[2].threshold
    /\ fs["threshold.json"].data.model_name = results[2].model_name

(***************************************************************************)
(* Claims about the serving process.                                       *)
(***************************************************************************)
SchemaKeys == {ASSETS.feature_columns[i] : i \in 1..Len(ASSETS.feature_columns)}

\* The last request was a /predict handled with a bundle loaded.
PredictHandledLoaded == last.endpoint = "predict" /\ ASSETS # None

\* C4: a /predict request, handled with a bundle loaded, whose features hold
\* a key outside the schema is answered 422 with exactly the extra keys
\* listed, and neither the input row was built nor predict_proba invoked.
C4_UnknownKeysRejectedFirst ==
    (PredictHandledLoaded /\ DOMAIN last.features \ SchemaKeys # {}) =>
        /\ last.status = 422
        /\ DOMAIN last.body = {"detail"}
        /\ LET extra_keys == last.body.detail.extra_keys
           IN /\ {extra_keys[i] : i \in 1..Len(extra_keys)}
                    = DOMAIN last.features \ SchemaKeys
              /\ Len(extra_keys) = Cardinality(DOMAIN last.features \ SchemaKeys)
        /\ last.frame = None
        /\ ~last.model_called

\* A rejected request that carried two unknown keys next to a schema key.
C4_Witness ==
    /\ PredictHandledLoaded
    /\ last.status = 422
    /\ Cardinality(DOMAIN last.features \ SchemaKeys) = 2
    /\ DOMAIN last.features \cap SchemaKeys # {}

\* C5: a successful /predict response has label in {0, 1}, label = 1 exactly
\* when probability >= the bundle's threshold, and carries the bundle's
\* threshold and model name.
C5_LabelMatchesThreshold ==
    (last.endpoint = "predict" /\ last.status = 200) =>
        /\ ASSETS # None
        /\ last.body.label \in {0, 1}
        /\ last.body.label = 1 <=> last.body.probability >= ASSETS.threshold
        /\ last.body.threshold = ASSETS.threshold
        /\ last.body.model_name = ASSETS.model_name

\* A successful response whose probability equals the threshold.
C5_Witness ==
    /\ last.endpoint = "predict"
    /\ last.status = 200
    /\ last.body.probability = ASSETS.threshold
    /\ last.body.label = 1

(***************************************************************************)
(* Claims about prepare_xy.                                                *)
(***************************************************************************)
IdentifierColumns == {"encounter_id", "patient_nbr"}
OutcomeColumns == {"readmitted", "readmission_30d", "readmission_any"}

\* C12: a prepare_xy call on a table that lacks the target column, or lacks
\* one of the identifier columns encounter_id and patient_nbr, fails with
\* SchemaError and returns no (X, y).
C12_MissingColumnRaisesSchemaError ==
    (/\ prepared # NoResult
     /\ \/ target_col \notin SeqToSet(df_columns)
        \/ \E id \in IdentifierColumns : id \notin SeqToSet(df_columns)) =>
        (prepared.kind = "raise" /\ prepared.error = "SchemaError")

\* C13: when prepare_xy returns, X has no identifier column and no
\* readmission-outcome column, its columns are the other columns of the input
\* in their original order with their cells, and y holds the target cell of
\* each input row at the row's position.
C13_FeaturesExcludeLeakage ==
    prepared.kind = "return" =>
        /\ \A i \in 1..Len(prepared.X.columns) :
              prepared.X.columns[i] \notin IdentifierColumns \cup OutcomeColumns
        /\ prepared.X.columns =
              SelectSeq(df_columns,
                        LAMBDA c : c \notin IdentifierColumns \cup OutcomeColumns)
        /\ Len(prepared.X.rows) = Len(df_rows)
        /\ \A i \in 1..Len(df_rows) :
              \A c \in SeqToSet(prepared.X.columns) :
                  prepared.X.rows[i][c] = CellOf(c, df_rows[i])
        /\ Len(prepared.y) = Len(df_rows)
        /\ \A i \in 1..Len(df_rows) :
              prepared.y[i] = CellOf(target_col, df_rows[i])

\* prepare_xy returned for a table with an identifier column, an outcome
\* column besides the default target, two other columns in between and two
\* rows of different labels.
C13_Witness ==
    /\ prepared.kind = "return"
    /\ target_col = "readmission_30d"
    /\ \E id \in IdentifierColumns : id \in SeqToSet(df_columns)
    /\ Len(prepared.X.columns) = 2
    /\ df_columns[1] = prepared.X.columns[1]
    /\ df_columns[Len(df_columns)] = prepared.X.columns[2]
    /\ Len(df_rows) = 2
    /\ prepared.y = <<1, 0>>

\* C21: whenever prepare_xy returns, for the default target or another one,
\* the column that was used as the target y is not a column of X.
C21_TargetNotAmongFeatures ==
    prepared.kind = "return" =>
        target_col \notin SeqToSet(prepared.X.columns)

(***************************************************************************)
(* Claims about the cross-validated predictions.                           *)
(***************************************************************************)
\* The rows that share the test fold of row r.
FoldOf(r) == {q \in DOMAIN test_fold : test_fold[q] = test_fold[r]}

\* C14: the out-of-fold vector has one probability per row; the entry at
\* position r scores row r and comes from the pipeline fitted on exactly the
\* rows outside r's fold.  The vector is thus fixed by the split alone,
\* whatever the order in which the fold jobs completed.
C14_OutOfFoldByRowPosition ==
    oof_proba # <<>> =>
        /\ DOMAIN oof_proba = DOMAIN test_fold
        /\ \A r \in DOMAIN test_fold :
              /\ oof_proba[r].row = r
              /\ oof_proba[r].fit_on = DOMAIN test_fold \ FoldOf(r)
              /\ r \notin oof_proba[r].fit_on

\* The vector was merged after the jobs completed in an order other than
\* the order of the folds, for a split whose folds interleave.
C14_Witness ==
    /\ oof_proba # <<>>
    /\ Len(arrival) >= 2
    /\ arrival[1] > arrival[2]
    /\ \E r \in DOMAIN test_fold : r > 1 /\ test_fold[r] < test_fold[r - 1]

(***************************************************************************)
(* Claims about the serving process and its bundle.                        *)
(***************************************************************************)
\* C15: the bundle is set once, by the step of the startup event that
\* returns from load_assets, and never changes afterwards; a step that
\* answers a request leaves the bundle and the loader untouched.
C15_BundleLoadedOnceReadOnly ==
    [][/\ ASSETS # None => ASSETS' = ASSETS
       /\ ASSETS' # ASSETS =>
             (load_pc = "threshold_read" /\ load_pc' = "loaded" /\ last' = last)
       /\ last' # last =>
             UNCHANGED <<ASSETS, load_pc, ld_model, ld_threshold>>]_vars

\* A process with its bundle loaded has answered a failed scoring and then a
\* request it rejected.
C15_Witness ==
    /\ ASSETS # None
    /\ last.endpoint = "predict"
    /\ last.status = 422
    /\ last.after_failure

\* What load_assets returns for the directory as it is.
BundleOnDisk ==
    [kind |-> "ModelAssets",
     model |-> [kind |-> "pipeline", run |-> fs["model.joblib"].data.run,
                estimator |-> fs["model.joblib"].data.estimator],
     threshold |-> fs["threshold.json"].data.threshold,
     model_name |-> fs["threshold.json"].data.model_name,
     threshold_run |-> fs["threshold.json"].data.run,
     feature_columns |-> fs["feature_columns.json"].data.columns]

\* C16: a /predict request that reached the pipeline is answered 200 with a
\* probability or, when scoring raised, 400 with neither probability nor
\* label; the failure leaves the process serving with the bundle it
\* loaded; every /predict request handled after such a failure is answered
\* from that same bundle: 422 exactly for keys outside the schema, otherwise
\* 400 or 200 by what the pipeline does, with the label by the threshold.
C16_ScoringFailureIsolated ==
    /\ (last.endpoint = "predict" /\ last.model_called) =>
          /\ last.status \in {200, 400}
          /\ last.status = 200 <=> "probability" \in DOMAIN last.body
    /\ (last.endpoint = "predict" /\ last.status = 400) =>
          /\ DOMAIN last.body = {"detail"}
          /\ load_pc = "loaded"
          /\ ASSETS = BundleOnDisk
    /\ (last.endpoint = "predict" /\ last.after_failure) =>
          /\ load_pc = "loaded"
          /\ ASSETS = BundleOnDisk
          /\ last.status \in {200, 400, 422}
          /\ last.status = 422 <=>
                DOMAIN last.features \ SeqToSet(BundleOnDisk.feature_columns) # {}
          /\ last.status = 200 =>
                /\ last.body.label = Label(last.body.probability,
                                           BundleOnDisk.threshold)
                /\ last.body.threshold = BundleOnDisk.threshold
                /\ last.body.model_name = BundleOnDisk.model_name
                /\ last.frame = make_input_frame(BundleOnDisk.feature_columns,
                                                 last.features)

\* A request scored successfully after an earlier request failed in scoring.
C16_Witness ==
    /\ last.endpoint = "predict"
    /\ last.status = 200
    /\ last.after_failure

\* C17: a /predict request sent through a test client constructed directly
\* on the app (the startup event does not run) is answered 200 or 422, and a
\* 200 answer has probability, label and threshold.
C17_TestClientGets200Or422 ==
    (last.endpoint = "predict" /\ ~startup_runs) =>
        /\ last.status \in {200, 422}
        /\ last.status = 200 =>
              {"probability", "label", "threshold"} \subseteq DOMAIN last.body

\* C18: /health is answered 200 with a status field; with a bundle loaded
\* the status is "ok" and model_loaded is true, otherwise the status is
\* "not_ready", model_loaded is false and model_name is null.
C18_HealthReflectsBundle ==
    last.endpoint = "health" =>
        /\ last.status = 200
        /\ "status" \in DOMAIN last.body
        /\ ASSETS # None =>
              /\ last.body.status = "ok"
              /\ last.body.model_loaded = TRUE
              /\ last.body.model_name = ASSETS.model_name
        /\ ASSETS = None =>
              /\ last.body.status = "not_ready"
              /\ last.body.model_loaded = FALSE
              /\ last.body.model_name = PyNone

\* /health was answered by a process that has no bundle.
C18_Witness ==
    /\ last.endpoint = "health"
    /\ ASSETS = None
    /\ last.body.status = "not_ready"

(***************************************************************************)
(* Claims about make_input_frame.                                          *)
(***************************************************************************)
\* C20: a make_input_frame call whose provided keys all belong to the schema
\* returns a frame of one row whose columns are the schema in schema order,
\* holding the provided value under each provided key and None under every
\* other schema column; after the call the caller's schema list and mapping
\* are as they were given.
C20_InputFrameFollowsSchema ==
    (/\ frame_call # NoResult
     /\ DOMAIN frame_call.provided_features
            \subseteq SeqToSet(frame_call.feature_columns)) =>
        /\ frame_call.returned.kind = "DataFrame"
        /\ frame_call.returned.columns = frame_call.feature_columns
        /\ DOMAIN frame_call.returned.row = 1..Len(frame_call.feature_columns)
        /\ \A i \in 1..Len(frame_call.feature_columns) :
              LET c == frame_call.feature_columns[i]
              IN frame_call.returned.row[i] =
                    IF c \in DOMAIN frame_call.provided_features
                    THEN frame_call.provided_features[c]
                    ELSE PyNone
        /\ schema_arg = frame_call.feature_columns
        /\ provided_arg = frame_call.provided_features

\* A call with a schema of three columns that is not in sorted order, of
\* which the first was not provided and the others were.
C20_Witness ==
    /\ frame_call # NoResult
    /\ Len(frame_call.feature_columns) = 3
    /\ frame_call.feature_columns[2] = "f1"
    /\ DOMAIN frame_call.provided_features =
          {frame_call.feature_columns[2], frame_call.feature_columns[3]}
    /\ frame_call.returned.row[1] = PyNone
    /\ frame_call.returned.row[2] # frame_call.returned.row[3]

(***************************************************************************)
(* Claim about the two TopCategoryReducer implementations.                 *)
(***************************************************************************)
\* C22: fitted on the same table with the same top_k and applied to the same
\* table, the two implementations return the same table, cell by cell.
C22_ImplementationsEquivalent ==
    (fitted /\ transformed # NoTable) =>
        /\ transformed_2.kind = "table"
        /\ transformed_2.out = transformed.out

====
